---- MODULE Spec2Model ----
(***************************************************************************)
(* Stock ledger and sale processor of the grocery store system.            *)
(*                                                                         *)
(* The model follows src/modules/inventory.py (InventoryManager) and       *)
(* src/modules/sales.py (SalesManager) statement by statement.  Every call *)
(* of db.fetch_one / db.execute_query (src/database/db_connection.py)      *)
(* opens its own connection and commits on its own, so one SQL statement   *)
(* is one atomic step and two sessions interleave between statements.      *)
(* A statement may raise a store error.  The edits of ProductManager       *)
(* (src/modules/products.py) are single statements; calculate_totals is a  *)
(* function of its arguments and is modelled in exact arithmetic.          *)
(***************************************************************************)
EXTENDS Integers, Sequences, FiniteSets, TLC

(* ---------------------------------------------------------------- bounds *)
InitStock == 1      \* stock_quantity of every product in the initial state
MaxQty    == 1      \* largest quantity / delta magnitude a caller passes
MaxFail   == 1      \* number of statements that raise a store error
MaxSales  == 3      \* sales a cashier processes one after the other
MaxDays   == 1      \* days that pass after the first one
MaxLines  == 2      \* lines of a cart handed to calculate_totals

(* ------------------------------------------------------------- universes *)
Sessions   == {1, 2}          \* two cashier/admin sessions (processes)
InitialProducts == {1, 2}     \* product_id of the rows table products begins with
ProductIds == {1, 2, 3}       \* ids a caller may pass; 3 has no row
Deltas     == (-MaxQty)..MaxQty
Quantities == 1..MaxQty
Targets    == (-1)..MaxQty
NoId       == 0               \* Python None for an id (AUTO_INCREMENT ids start at 1)
NoNotes    == <<>>            \* Python None for notes
Today      == 20250101        \* datetime.now() formatted %Y%m%d, first day
Dates      == Today..(Today + MaxDays)
Kinds      == {"return"}      \* kind a direct update_stock caller passes

\* sales.py:11-18  CartItem(product_id, ..., unit_price, quantity): subtotal =
\* unit_price * quantity; amounts in cents
CartItem(product_id, unit_price, quantity) ==
  [product_id |-> product_id, unit_price |-> unit_price, quantity |-> quantity,
   subtotal |-> unit_price * quantity]

\* slip: the subtotal is left as it was
update_quantity_stale(item, quantity) == [item EXCEPT !.quantity = quantity]

\* sales.py:20-23  update_quantity: quantity and subtotal are set anew
update_quantity(item, quantity) ==
  [item EXCEPT !.quantity = quantity, !.subtotal = item.unit_price * quantity]

\* the price the till shows for product p, in cents
ShelfPrice(p) == 100 + 50 * p

\* a cart line as the constructor builds it
CartLine(p, q) == CartItem(p, ShelfPrice(p), q)

\* the lines a cashier can hold: built by the constructor, or built with
\* another quantity and then changed through update_quantity
CartLines ==
  {CartLine(p, q) : p \in ProductIds, q \in Quantities}
    \cup {update_quantity(CartLine(p, q0), q) :
            p \in ProductIds, q0 \in 1..(MaxQty + 1), q \in Quantities}
Carts == {<<>>} \cup {<<a>> : a \in CartLines}
                \cup {<<a, b>> : a \in CartLines, b \in CartLines}

VARIABLES
  stock,        \* products.stock_quantity, by product_id
  ledger,       \* table inventory_transactions, in insertion order
  sales,        \* table sales; sale_id is the position of the row
  sale_items,   \* table sale_items, in insertion order
  pc,           \* per session: the statement it executes next
  fr,           \* per session: parameters and locals of the running call
  hist,         \* per session: observations about the running/last call
  nfails,       \* store errors raised so far
  today,        \* the current date: datetime.now() and CURDATE()
  tot,          \* a call of calculate_totals: its arguments and its result
  prod,         \* the other columns of table products, by product_id
  pm,           \* the last call of ProductManager and what it returned
  activity_logs,    \* table activity_logs, in insertion order
  lg,           \* a call of a function wrapped by log_action
  users,        \* table users, by user_id
  um,           \* the last call of UserManager and what it returned
  now,          \* the clock of the store
  transaction_date, \* inventory_transactions.transaction_date, row by row
  qr            \* the last call of get_inventory_transactions

vars == <<stock, ledger, sales, sale_items, pc, fr, hist, nfails, today, tot,
          prod, pm, activity_logs, lg, users, um, now, transaction_date, qr>>

\* product_id of the rows of table products
Products == DOMAIN stock

(* ------------------------------------------------------- pure expressions *)
\* slip: the delta is subtracted
NewStock_sub(previous_stock, quantity_change) == previous_stock - quantity_change

\* inventory.py:59  new_stock = previous_stock + quantity_change
NewStock(previous_stock, quantity_change) == previous_stock + quantity_change

\* slip: the bound of the check is off by one
InsufficientStock_off(new_stock) == new_stock < -1

\* slip: the check is left out
InsufficientStock_none(new_stock) == FALSE

\* inventory.py:61  if new_stock < 0: return False
InsufficientStock(new_stock) == new_stock < 0

\* inventory.py:76-79  the parameters of the INSERT INTO inventory_transactions
LedgerRow(f) ==
  [product_id       |-> f.product_id,
   transaction_type |-> f.transaction_type,
   quantity_change  |-> f.quantity_change,
   previous_stock   |-> f.previous_stock,
   new_stock        |-> f.new_stock,
   reference_id     |-> f.reference_id,
   notes            |-> f.notes,
   user_id          |-> f.user_id]

\* slip: the target is passed on as the delta
AdjustDelta_target(new_quantity, current_stock) == new_quantity

\* inventory.py:128  quantity_change = new_quantity - current_stock
AdjustDelta(new_quantity, current_stock) == new_quantity - current_stock

\* slip: the new row replaces the rows before it
AppendRow_latest(rows, row) == <<row>>

\* inventory.py:70-79  INSERT INTO inventory_transactions adds one row
AppendRow(rows, row) == Append(rows, row)

\* slip: the UPDATE has no WHERE clause
SetStock_all(st, product_id, new_stock) == [p \in DOMAIN st |-> new_stock]

\* inventory.py:66-67  UPDATE products SET stock_quantity = new_stock WHERE
\* product_id = product_id
SetStock(st, product_id, new_stock) == [st EXCEPT ![product_id] = new_stock]

\* slip: the comparison is off by one
Available_off(stock_quantity, required_quantity) == stock_quantity + 1 >= required_quantity

\* inventory.py:252  return result[0] >= required_quantity
Available(stock_quantity, required_quantity) == stock_quantity >= required_quantity

\* slip: only a missing cart (None) is refused, an empty list is not
EmptyCart_none(cart_items) == FALSE

\* sales.py:133  if not cart_items
EmptyCart(cart_items) == cart_items = <<>>

\* the decimal digits of a natural number, most significant first
RECURSIVE Digits(_)
Digits(n) == IF n < 10 THEN <<n>> ELSE Append(Digits(n \div 10), n % 10)

\* Python format spec 04d: at least four digits, padded with zeros on the left
Format04d(n) ==
  LET d == Digits(n)
  IN IF Len(d) >= 4 THEN d ELSE [j \in 1..(4 - Len(d)) |-> 0] \o d

\* slip: the count is not restricted to today's sales
SalesToday_all == Len(sales)

\* sales.py:75-81  SELECT COUNT(*) FROM sales WHERE DATE(sale_date) = CURDATE()
SalesToday == Cardinality({k \in 1..Len(sales) : sales[k].sale_date = today})

\* sales.py:83  f"SALE-{date_str}-{count + 1:04d}"
SaleNumber(date_str, count) == <<"SALE-", date_str, "-", Format04d(count + 1)>>

\* sales.py:86  datetime.now().strftime("%H%M%S"), the digits of the time of day
TimeOfDay == <<0, 9, 3, 0, 0, 0>>

\* sales.py:87  fallback f"SALE-{date_str}-{HHMMSS}"
FallbackSaleNumber(date_str) == <<"SALE-", date_str, "-", TimeOfDay>>

\* sales.py:184  f"Sale: {sale_number}"
SaleNotes(sale_number) == <<"Sale: ", sale_number>>

\* sales.py:180  -item.quantity
SaleDelta(quantity) == -quantity

\* sales.py:173-174  the parameters of the INSERT INTO sale_items
SaleItemRow(sale_id, item) ==
  [sale_id |-> sale_id, product_id |-> item.product_id, quantity |-> item.quantity,
   unit_price |-> item.unit_price, subtotal |-> item.subtotal]

\* sales.py:158-162  the parameters of the INSERT INTO sales
SaleRow(sale_number, cashier_id, totals) ==
  [sale_number |-> sale_number, cashier_id |-> cashier_id,
   subtotal |-> totals.subtotal, tax_amount |-> totals.tax_amount,
   discount_amount |-> totals.discount_amount,
   total_amount |-> totals.total_amount]

\* the INSERT INTO sales names no sale_date: the store stamps the row with
\* the current date (the "timestamp" of a Sale)
SaleDate == today

\* the row of table sales an INSERT with the parameters row produces
StoredSale(row) ==
  [sale_number |-> row.sale_number, cashier_id |-> row.cashier_id,
   subtotal |-> row.subtotal, tax_amount |-> row.tax_amount,
   discount_amount |-> row.discount_amount, total_amount |-> row.total_amount,
   sale_date |-> SaleDate]

\* variant: the value of the last update_stock decides the result
SaleResult_checked(sale_id, us_ret) == IF us_ret THEN sale_id ELSE NoId

\* sales.py:178-187  the value of update_stock is dropped; the loop goes on
\* and process_sale returns sale_id
SaleResult(sale_id, us_ret) == sale_id

(* -------------------------------------------------------- table products *)
\* The columns update_product may set are guarded in three ways
\* (products.py:102-122): "if barcode:" for barcode and product_name, "if
\* category_id:" for category_id, "is not None" for unit_price, cost_price,
\* reorder_level and description.  The model keeps one column of each kind.
NoneStr == "None"              \* Python None where a string is expected
NoneInt == -1                  \* Python None where a number is expected
BarcodeArgs  == {NoneStr, "", "B9"}
CategoryArgs == {NoneInt, 0, 7}
PriceArgs    == {NoneInt, 0, 250}
EditedIds    == {1, 3}         \* ids handed to update_product: with and without a row

\* the row of product p before any edit
InitialProduct(p) ==
  [barcode |-> IF p = 1 THEN "B1" ELSE "B2", category_id |-> 1,
   unit_price |-> 100, is_active |-> TRUE]

\* Python None where a Product is expected
NoProduct ==
  [product_id |-> NoId, barcode |-> NoneStr, category_id |-> NoneInt,
   unit_price |-> NoneInt, stock_quantity |-> 0, is_active |-> FALSE]

\* a call of ProductManager: the operation, whether it succeeded, the argument
\* of a lookup (<<>> for the other operations) and the Product it returned
ProductCall(op, ret) == [op |-> op, ret |-> ret, arg |-> <<>>, found |-> NoProduct]

NoProductCall == ProductCall("none", FALSE)

\* slip: the lookup by barcode does not ask for an active product
Matching_any(barcode) == {p \in DOMAIN prod : prod[p].barcode = barcode}

\* products.py:203  WHERE p.barcode = %s AND p.is_active = TRUE
Matching(barcode) ==
  {p \in DOMAIN prod : prod[p].barcode = barcode /\ prod[p].is_active}

\* the barcode is the unique scan key of a product: a statement that would
\* give a second row (other than row p) this barcode raises
BarcodeTaken(barcode, p) ==
  \E q \in DOMAIN prod : q # p /\ prod[q].barcode = barcode

\* products.py:102-122  the columns named in the SET clause
Updates(barcode, category_id, unit_price) ==
  (IF barcode \notin {NoneStr, ""} THEN {"barcode"} ELSE {})
    \cup (IF category_id \notin {NoneInt, 0} THEN {"category_id"} ELSE {})
    \cup (IF unit_price # NoneInt THEN {"unit_price"} ELSE {})

(* ------------------------------------------------------ calculate_totals *)
\* Amounts are exact: a unit price and a returned amount are whole cents, an
\* intermediate amount is a whole number of 1/Scale cents.
Scale == 10000

\* config.py:30  'tax_rate': 0.12, in percent
TaxRatePercent == 12

\* sales.py:11-18  CartItem: subtotal = unit_price * quantity
PricedLine(unit_price, quantity) ==
  [unit_price |-> unit_price, quantity |-> quantity,
   subtotal |-> unit_price * quantity]

Prices   == {5, 500, 1000}          \* 0.05, 5.00, 10.00
Percents == {0, 10, 15, 50, 100}    \* discount_percent
PricedLines == {PricedLine(u, q) : u \in Prices, q \in 1..2}
PricedCarts == UNION {[1..n -> PricedLines] : n \in 0..MaxLines}

\* sales.py:101  sum(item.subtotal for item in cart_items), in cents
RECURSIVE Subtotal(_)
Subtotal(cart_items) ==
  IF cart_items = <<>> THEN 0
  ELSE Head(cart_items).subtotal + Subtotal(Tail(cart_items))

\* Python round(x, 2) of the float that stands for n/Scale cents: the nearest
\* whole cent; when n/Scale lies exactly between two cents the binary
\* representation of the float decides, so both neighbours are possible
Round2(n) ==
  LET b == IF n >= 0 THEN n \div Scale ELSE -((-n) \div Scale) - 1
  IN {c \in b..(b + 1) : 2 * (IF n >= c * Scale THEN n - c * Scale ELSE c * Scale - n)
                            <= Scale}

\* slip: the discount is rounded to whole cents before it is used
DiscountAmount_rounded(subtotal, discount_percent) ==
  ((subtotal * discount_percent + 50) \div 100) * Scale

\* sales.py:102  discount_amount = subtotal * (discount_percent / 100)
DiscountAmount(subtotal, discount_percent) ==
  subtotal * discount_percent * (Scale \div 100)

\* sales.py:104  tax_amount = amount_after_discount * tax_rate
TaxAmount(amount_after_discount) == (amount_after_discount * TaxRatePercent) \div 100

\* sales.py:101-113  the dictionaries calculate_totals may return
CalculateTotals(cart_items, discount_percent) ==
  LET subtotal              == Subtotal(cart_items)
      discount_amount       == DiscountAmount(subtotal, discount_percent)
      amount_after_discount == subtotal * Scale - discount_amount
      tax_amount            == TaxAmount(amount_after_discount)
      total_amount          == amount_after_discount + tax_amount
  IN {[subtotal |-> s, discount_percent |-> discount_percent,
       discount_amount |-> d, tax_amount |-> t, total_amount |-> a] :
        s \in Round2(subtotal * Scale), d \in Round2(discount_amount),
        t \in Round2(tax_amount), a \in Round2(total_amount)}

\* sales.py:117  process_sale(..., discount_percent = 0.0, ...)
DiscountPercent == 0

NoTotals ==
  [subtotal |-> 0, discount_percent |-> 0, discount_amount |-> 0,
   tax_amount |-> 0, total_amount |-> 0]

\* no call of calculate_totals
NoCall == [cart_items |-> <<>>, discount_percent |-> 0, called |-> FALSE,
           totals |-> NoTotals]

(* ------------------------------------------------------ activity logging *)
\* the values a wrapped function returns, by Python type; val is the number
\* the value counts as (False 0, True 1)
PyNone    == [type |-> "NoneType", val |-> 0]
PyBool(b) == [type |-> "bool", val |-> IF b THEN 1 ELSE 0]
PyInt(n)  == [type |-> "int", val |-> n]
PyObject  == [type |-> "object", val |-> 0]     \* a Product, a User
Results   == {PyNone, PyBool(FALSE), PyBool(TRUE), PyInt(0), PyInt(5), PyObject}

\* logs.py:179  "if ... result": the truth value of a Python value
Truthy(v) == IF v.type = "object" THEN TRUE ELSE v.val # 0

\* logs.py:180  isinstance(result, int); bool is a subclass of int
IsInt(v) == v.type \in {"int", "bool"}

\* logs.py:180  entity_id = result if isinstance(result, int) else None
EntityId(result) == IF IsInt(result) THEN result.val ELSE NoId

\* a positional argument: a dict with the key 'user_id', or anything else
DictArg(user_id) == [has_user_id |-> TRUE, user_id |-> user_id]
OtherArg         == [has_user_id |-> FALSE, user_id |-> NoId]
ArgLists == {<<>>, <<OtherArg>>, <<DictArg(NoId)>>, <<OtherArg, DictArg(2)>>,
             <<DictArg(2), DictArg(3)>>}

\* logs.py:173-176  the user_id of the first dict argument that has one
RECURSIVE FirstUserId(_)
FirstUserId(args) ==
  IF args = <<>> THEN NoId
  ELSE IF Head(args).has_user_id THEN Head(args).user_id
  ELSE FirstUserId(Tail(args))

\* logs.py:170-176  user_id = kwargs.get('user_id'); when that is None or 0,
\* the positional arguments are searched
UserIdOf(user_id, args) == IF user_id # NoId THEN user_id ELSE FirstUserId(args)

\* slip: the activity is logged whatever the function returned
ShouldLog_always(user_id, result) == user_id # NoId

\* logs.py:179  if user_id and result
ShouldLog(user_id, result) == user_id # NoId /\ Truthy(result)

\* logs.py:59-63, 181-184  the parameters of the INSERT INTO activity_logs
ActivityRow(user_id, action, entity_type, entity_id) ==
  [user_id |-> user_id, action |-> action, entity_type |-> entity_type,
   entity_id |-> entity_id, details |-> <<"Function ", "func", " executed">>]

\* slip: the wrapper hands back what log_activity returned
WrapperResult_log(result, log_ret) ==
  IF log_ret = "none" THEN result ELSE PyBool(log_ret = "True")

\* logs.py:186  return result
WrapperResult(result, log_ret) == result

\* no call of a wrapped function
NoLogCall ==
  [pc |-> "idle", user_id |-> NoId, args |-> <<>>, result |-> PyNone,
   log_user |-> NoId, log_ret |-> "none", ret |-> PyNone]

(* ------------------------------------------------------------ table users *)
\* A Python str is the sequence of its characters; None is NoneChars, the one
\* sequence that is no str.
NoneChars == <<"None">>

LetterChars ==
  {"a", "b", "c", "d", "e", "f", "g", "h", "i", "j", "k", "l", "m", "n",
   "o", "p", "q", "r", "s", "t", "u", "v", "w", "x", "y", "z", "A", "B",
   "C", "D", "E", "F", "G", "H", "I", "J", "K", "L", "M", "N", "O", "P",
   "Q", "R", "S", "T", "U", "V", "W", "X", "Y", "Z"}
DigitChars == {"0", "1", "2", "3", "4", "5", "6", "7", "8", "9"}
SpaceChars == {" "}

\* str.strip(): leading and trailing whitespace removed
RECURSIVE LStrip(_)
LStrip(s) == IF s # <<>> /\ Head(s) \in SpaceChars THEN LStrip(Tail(s)) ELSE s
RECURSIVE RStrip(_)
RStrip(s) ==
  IF s # <<>> /\ s[Len(s)] \in SpaceChars THEN RStrip(SubSeq(s, 1, Len(s) - 1)) ELSE s
Strip(s) == RStrip(LStrip(s))

\* "x in s" for a substring x of two characters
HasPair(s, a, b) == \E k \in 1..(Len(s) - 1) : s[k] = a /\ s[k + 1] = b

\* validators.py:208-239  validate_username
validate_username(username) ==
  LET name == Strip(username)
  IN /\ username # NoneChars
     /\ Len(name) >= 3
     /\ Len(name) <= 50
     /\ \A k \in 1..Len(name) : name[k] \in LetterChars \cup DigitChars \cup {"_"}
     /\ name[1] \notin DigitChars

\* slip: a password without a digit is accepted
validate_password_nodigit(password) ==
  /\ password # NoneChars
  /\ Len(password) >= 6
  /\ Len(password) <= 100
  /\ \E k \in 1..Len(password) : password[k] \in LetterChars

\* validators.py:241-278  validate_password, min_length 6
validate_password(password) ==
  /\ password # NoneChars
  /\ Len(password) >= 6
  /\ Len(password) <= 100
  /\ \E k \in 1..Len(password) : password[k] \in LetterChars
  /\ \E k \in 1..Len(password) : password[k] \in DigitChars

\* validators.py:10-36  validate_email: the pattern
\* ^[a-zA-Z0-9._%+-]+@[a-zA-Z0-9.-]+\.[a-zA-Z]{2,}$ and three more checks; an
\* empty email is accepted
validate_email(email) ==
  \/ email \in {NoneChars, <<>>}
  \/ /\ \E at \in 2..Len(email), dot \in 4..Len(email) :
          /\ email[at] = "@"
          /\ dot > at + 1
          /\ email[dot] = "."
          /\ Len(email) - dot >= 2
          /\ \A k \in 1..(at - 1) :
               email[k] \in LetterChars \cup DigitChars \cup {".", "_", "%", "+", "-"}
          /\ \A k \in (at + 1)..(dot - 1) :
               email[k] \in LetterChars \cup DigitChars \cup {".", "-"}
          /\ \A k \in (dot + 1)..Len(email) : email[k] \in LetterChars
     /\ Len(email) <= 100
     /\ ~HasPair(email, ".", ".")
     /\ email[1] # "."
     /\ email[Len(email)] # "."

\* validators.py:39-67  validate_phone: separators are removed, what is left
\* must match ^\+?\d{10,15}$; an empty phone is accepted
validate_phone(phone) ==
  LET cleaned == SelectSeq(phone, LAMBDA c : c \notin SpaceChars \cup {"-", "(", ")", "."})
      digits  == IF cleaned # <<>> /\ Head(cleaned) = "+" THEN Tail(cleaned) ELSE cleaned
  IN \/ phone \in {NoneChars, <<>>}
     \/ /\ Len(digits) >= 10
        /\ Len(digits) <= 15
        /\ \A k \in 1..Len(digits) : digits[k] \in DigitChars

\* slip: every role is accepted
ValidRole_any(role) == TRUE

\* users.py:217  role in ['admin', 'cashier']
ValidRole(role) == role \in {"admin", "cashier"}

\* users.py:52-53  bcrypt.hashpw(password, salt): the hash carries its salt
HashPassword(password, salt) == [salt |-> salt, digest |-> <<salt, password>>]

\* slip: the password is not compared
VerifyPassword_any(password, password_hash) == TRUE

\* users.py:68-69  bcrypt.checkpw(password, password_hash): the password is
\* hashed with the salt of the stored hash and the two hashes are compared
VerifyPassword(password, password_hash) ==
  HashPassword(password, password_hash.salt) = password_hash

Salts == {1, 2}                 \* bcrypt.gensalt()

\* the strings the callers pass
Admin      == <<"a", "d", "m", "i", "n">>
Bob        == <<"b", "o", "b">>
BadName    == <<"9", "o", "b">>      \* begins with a digit
Admin123   == <<"a", "d", "m", "i", "n", "1", "2", "3">>
Pass12     == <<"p", "a", "s", "s", "1", "2">>
Word34     == <<"w", "o", "r", "d", "3", "4">>
BadPass    == <<"p", "a", "s", "s", "w", "d">>   \* no digit
Mail       == <<"a", "@", "b", ".", "c", "o">>
BadMail    == <<"a", "@", "b", ".", "c">>          \* top-level domain too short
DotMail    == <<"a", ".", ".", "b", "@", "c", ".", "c", "o">>   \* two dots in a row
Phone      == <<"0", "9", "1", "2", "3", "4", "5", "6", "7", "8", "9">>
BadPhone   == <<"1", "2", "3">>                   \* too short

UserIds == {1, 2, 3}

\* the account the installation begins with (user_id 1, the default admin)
InitialUsers ==
  [u \in {1} |-> [username |-> Admin, password_hash |-> HashPassword(Admin123, 1),
                  full_name |-> "Administrator", role |-> "admin",
                  email |-> NoneChars, phone |-> NoneChars, is_active |-> TRUE,
                  deleted |-> FALSE]]

\* the rows of table users
UserRows == {u \in DOMAIN users : ~users[u].deleted}

\* "if email:", "if phone:": neither None nor empty
Given(s) == s \notin {NoneChars, <<>>}

\* users.py:119  "Unique username": the INSERT of a second row with the same
\* username is refused
UsernameTaken(username) == \E u \in UserRows : users[u].username = username

\* slip: the query does not look at is_active
LoginRows_inactive(username) == {u \in UserRows : users[u].username = username}

\* users.py:86-91  SELECT ... FROM users WHERE username = %s AND is_active = TRUE
LoginRows(username) ==
  {u \in UserRows : users[u].username = username /\ users[u].is_active}

\* a call of UserManager: its arguments (None where the operation has no such
\* argument) and what it returned: a user_id in ret (NoId for None), a bool
\* in ok
UserCall(op) ==
  [op |-> op, user_id |-> NoId, username |-> NoneChars, password |-> NoneChars,
   old_password |-> NoneChars, full_name |-> "", role |-> "",
   email |-> NoneChars, phone |-> NoneChars, ret |-> NoId, ok |-> FALSE]

NoUserCall == UserCall("none")

\* the UPDATE users SET ... WHERE user_id = %s: row user_id becomes row, no
\* row changes when there is no such user
UpdateUser(user_id, row) ==
  IF user_id \in UserRows THEN [users EXCEPT ![user_id] = row] ELSE users

(* ------------------------------------------ table inventory_transactions *)
\* transaction_id of the rows: the position in insertion order
TransactionIds == 1..Len(ledger)

\* slip: the product filter is dropped
Filtered_all(product_id, transaction_type) ==
  {i \in TransactionIds :
     /\ ledger[i].product_id \in Products
     /\ transaction_type = "" \/ ledger[i].transaction_type = transaction_type}

\* inventory.py:168-187  JOIN products, WHERE 1=1, "if product_id:" AND
\* it.product_id = %s, "if transaction_type:" AND it.transaction_type = %s
\* (None, 0 and the empty string add no condition)
Filtered(product_id, transaction_type) ==
  {i \in TransactionIds :
     /\ ledger[i].product_id \in Products
     /\ product_id = NoId \/ ledger[i].product_id = product_id
     /\ transaction_type = "" \/ ledger[i].transaction_type = transaction_type}

\* inventory.py:189  ORDER BY it.transaction_date DESC LIMIT %s: the
\* sequences of ids the store may return: the first limit rows of an ordering
\* by descending transaction_date; rows with the same transaction_date come
\* in any order
OrderedLimit(ids, limit) ==
  LET n == IF Cardinality(ids) < limit THEN Cardinality(ids) ELSE limit
  IN {r \in [1..n -> ids] :
        /\ \A i, j \in 1..n : i < j => r[i] # r[j]
        /\ \A i, j \in 1..n :
             i < j => transaction_date[r[i]] >= transaction_date[r[j]]
        /\ \A m \in ids : (\A i \in 1..n : r[i] # m) =>
             \A i \in 1..n : transaction_date[m] <= transaction_date[r[i]]}

\* no call of get_inventory_transactions; nrows is the number of rows the
\* table held when the query ran, rows the transaction_id of the rows returned
NoQuery ==
  [called |-> FALSE, product_id |-> NoId, transaction_type |-> "", limit |-> 0,
   nrows |-> 0, rows |-> <<>>]

(* ------------------------------------------------------------- frames *)
IdleFrame ==
  [op |-> "none", product_id |-> NoId, quantity_change |-> 0,
   transaction_type |-> "", user_id |-> NoId, reference_id |-> NoId,
   notes |-> NoNotes, previous_stock |-> 0, new_stock |-> 0,
   new_quantity |-> 0, cart |-> <<>>, i |-> 0, sale_id |-> NoId,
   sale_number |-> <<>>, us_ret |-> FALSE,
   ret_bool |-> FALSE, ret_sale |-> NoId, raised |-> FALSE]

\* observations taken at the entry of a top-level call (h_*) and at the entry
\* of an update_stock invocation (u_*)
IdleHist ==
  [h_stock |-> [p \in Products |-> 0], h_nsales |-> 0, h_nitems |-> 0,
   h_nledger |-> 0, h_touched |-> FALSE, h_failed |-> FALSE,
   h_failed_after |-> FALSE, h_checked |-> 0,
   h_reads |-> 0, h_writes |-> 0, h_usfalse |-> FALSE, h_log |-> <<>>,
   h_before |-> {},
   u_state |-> "none", u_stock |-> 0, u_nledger |-> 0,
   u_touched |-> FALSE, u_failed |-> FALSE, u_writes |-> 0]

StockOf(p) == IF p \in Products THEN stock[p] ELSE 0

\* slip: a missing row is read as stock 0
NotFound_zero(product_id) == FALSE

\* inventory.py:54, 124  if not result: the SELECT found no row
NotFound(product_id) == product_id \notin Products

EnterCall(s) ==
  [IdleHist EXCEPT !.h_stock = stock, !.h_nsales = Len(sales),
                   !.h_nitems = Len(sale_items), !.h_nledger = Len(ledger),
                   !.h_before = {t \in Sessions : pc[t] = "done"}]

EnterUS(h, p) ==
  [h EXCEPT !.u_state = "running", !.u_stock = StockOf(p),
            !.u_nledger = Len(ledger), !.u_touched = FALSE,
            !.u_failed = FALSE, !.u_writes = 0]

\* session s wrote something about product p (NoId: a sales / sale_items row)
Wrote(s, p, hs) ==
  [t \in Sessions |->
     IF t = s THEN hs
     ELSE [hist[t] EXCEPT !.h_touched = TRUE,
                          !.u_touched = @ \/ (p # NoId /\ p = fr[t].product_id)]]

Init ==
  /\ stock = [p \in InitialProducts |-> InitStock]
  /\ ledger = <<>>
  /\ sales = <<>>
  /\ sale_items = <<>>
  /\ pc = [s \in Sessions |-> "idle"]
  /\ fr = [s \in Sessions |-> IdleFrame]
  /\ hist = [s \in Sessions |-> IdleHist]
  /\ nfails = 0
  /\ today = Today
  /\ tot = NoCall
  /\ prod = [p \in InitialProducts |-> InitialProduct(p)]
  /\ pm = NoProductCall
  /\ activity_logs = <<>>
  /\ lg = NoLogCall
  /\ users = InitialUsers
  /\ um = NoUserCall
  /\ now = 0
  /\ transaction_date = <<>>
  /\ qr = NoQuery


(* ------------------------------------------------------ step bookkeeping *)
\* session s moves to pcv with frame f and observations h; when it wrote,
\* p is the product the write is about (NoId for sales / sale_items rows)
Step(s, pcv, f, h, wrote, p) ==
  /\ pc' = [pc EXCEPT ![s] = pcv]
  /\ fr' = [fr EXCEPT ![s] = f]
  /\ hist' = IF wrote THEN Wrote(s, p, h) ELSE [hist EXCEPT ![s] = h]
  /\ UNCHANGED <<today, tot, prod, pm, activity_logs, lg, users, um, now, qr>>

\* where the caller of update_stock continues once it has returned r:
\* restock_product / adjust_stock return r (inventory.py:101, 130);
\* process_sale goes on with the next cart line or returns sale_id
\* (sales.py:170-187)
MoreLines(f) == f.op = "process_sale" /\ f.i < Len(f.cart)

ReturnUS(f, r) ==
  IF f.op = "process_sale"
    THEN IF f.i < Len(f.cart)
           THEN [f EXCEPT !.us_ret = r, !.i = f.i + 1]
           ELSE [f EXCEPT !.us_ret = r, !.ret_sale = SaleResult(f.sale_id, r)]
    ELSE [f EXCEPT !.us_ret = r, !.ret_bool = r]

Return(s, f, h, r, wrote, p) ==
  Step(s, IF MoreLines(f) THEN "ps_item" ELSE "done", ReturnUS(f, r),
       [h EXCEPT !.u_state = "returned", !.h_usfalse = @ \/ ~r], wrote, p)

\* a statement of session s raised; h_failed_after: the sales header of the
\* running process_sale was already inserted
Raised(s, h) == [h EXCEPT !.h_failed = TRUE, !.u_failed = TRUE,
                          !.h_failed_after = @ \/ fr[s].sale_id # NoId]
Checked(h) == [h EXCEPT !.h_checked = @ + 1]
Read(h)   == [h EXCEPT !.h_reads = @ + 1]
Write(h)  == [h EXCEPT !.h_writes = @ + 1, !.u_writes = @ + 1]

\* the writes of the running call in the order they were issued: what was
\* written ("header", "item", "stock", "ledger") and for which cart line
\* (0 outside the line loop of process_sale)
Log(h, what, line) == [h EXCEPT !.h_log = Append(@, <<what, line>>)]

\* every session makes one call; two calls one after the other are the calls
\* of the two sessions.  The sessions run the same code, so session 1 is
\* taken to be the one that calls first.
CanCall(s) == pc[s] = "idle" /\ \A t \in Sessions : t < s => pc[t] # "idle"

\* db_connection.py:79-83, 145-147  the statement raises; nothing of it is
\* persisted (rollback of the failed statement only)
StoreError(s, at) ==
  /\ pc[s] = at
  /\ nfails < MaxFail
  /\ nfails' = nfails + 1

(* ------------------------------------------------- InventoryManager calls *)
\* inventory.py:32  a caller invokes update_stock(product_id, quantity_change,
\* transaction_type, user_id, reference_id=None, notes)
update_stock(s, p, d, k) ==
  /\ CanCall(s)
  /\ Step(s, "us_select",
          [IdleFrame EXCEPT !.op = "update_stock", !.product_id = p,
                            !.quantity_change = d, !.transaction_type = k,
                            !.user_id = s, !.notes = <<"note">>],
          EnterUS(EnterCall(s), p), FALSE, NoId)
  /\ UNCHANGED <<stock, ledger, transaction_date, sales, sale_items, nfails>>

\* inventory.py:87-103  restock_product = update_stock(.., 'restock', ..)
restock_product(s, p, q) ==
  /\ CanCall(s)
  /\ Step(s, "us_select",
          [IdleFrame EXCEPT !.op = "restock_product", !.product_id = p,
                            !.quantity_change = q, !.transaction_type = "restock",
                            !.user_id = s, !.notes = <<"note">>],
          EnterUS(EnterCall(s), p), FALSE, NoId)
  /\ UNCHANGED <<stock, ledger, transaction_date, sales, sale_items, nfails>>

\* inventory.py:106  a caller invokes adjust_stock(product_id, new_quantity, ..)
adjust_stock(s, p, q) ==
  /\ CanCall(s)
  /\ Step(s, "adj_select",
          [IdleFrame EXCEPT !.op = "adjust_stock", !.product_id = p,
                            !.new_quantity = q, !.user_id = s,
                            !.notes = <<"note">>],
          EnterCall(s), FALSE, NoId)
  /\ UNCHANGED <<stock, ledger, transaction_date, sales, sale_items, nfails>>

\* inventory.py:121-132  adjust_stock reads the stock, computes the delta and
\* calls update_stock
adj_select(s) ==
  /\ pc[s] = "adj_select"
  /\ LET f == fr[s]
         h == hist[s]
     IN IF NotFound(f.product_id)
          THEN Step(s, "done", [f EXCEPT !.ret_bool = FALSE], Read(h), FALSE, NoId)
          ELSE Step(s, "us_select",
                    [f EXCEPT !.quantity_change =
                                 AdjustDelta(f.new_quantity, StockOf(f.product_id)),
                              !.transaction_type = "adjustment"],
                    EnterUS(Read(h), f.product_id), FALSE, NoId)
  /\ UNCHANGED <<stock, ledger, transaction_date, sales, sale_items, nfails>>

\* inventory.py:122  the SELECT of adjust_stock is outside any try block: a
\* store error leaves adjust_stock as an exception
adj_select_raise(s) ==
  /\ StoreError(s, "adj_select")
  /\ Step(s, "done", [fr[s] EXCEPT !.raised = TRUE], Raised(s, Read(hist[s])), FALSE, NoId)
  /\ UNCHANGED <<stock, ledger, transaction_date, sales, sale_items>>

\* inventory.py:50-63  SELECT stock_quantity, not-found and negative checks
us_select(s) ==
  /\ pc[s] = "us_select"
  /\ LET f == fr[s]
         h == hist[s]
     IN IF NotFound(f.product_id)
          THEN Return(s, f, Read(h), FALSE, FALSE, NoId)
          ELSE LET prev == StockOf(f.product_id)
                   new  == NewStock(prev, f.quantity_change)
                   g    == [f EXCEPT !.previous_stock = prev, !.new_stock = new]
               IN IF InsufficientStock(new)
                    THEN Return(s, g, Read(h), FALSE, FALSE, NoId)
                    ELSE Step(s, "us_update", g, Read(h), FALSE, NoId)
  /\ UNCHANGED <<stock, ledger, transaction_date, sales, sale_items, nfails>>

\* inventory.py:66-67  UPDATE products SET stock_quantity = new_stock
us_update(s) ==
  /\ pc[s] = "us_update"
  /\ stock' = SetStock(stock, fr[s].product_id, fr[s].new_stock)
  /\ Step(s, "us_insert", fr[s], Log(Write(hist[s]), "stock", fr[s].i), TRUE,
          fr[s].product_id)
  /\ UNCHANGED <<ledger, transaction_date, sales, sale_items, nfails>>

\* inventory.py:70-81  INSERT INTO inventory_transactions; return True.  The
\* INSERT names no transaction_date: the store stamps the row with its clock
us_insert(s) ==
  /\ pc[s] = "us_insert"
  /\ ledger' = AppendRow(ledger, LedgerRow(fr[s]))
  /\ transaction_date' = Append(transaction_date, now)
  /\ Return(s, fr[s], Log(Write(hist[s]), "ledger", fr[s].i), TRUE, TRUE,
            fr[s].product_id)
  /\ UNCHANGED <<stock, sales, sale_items, nfails>>

\* inventory.py:82-84  any store error inside update_stock is caught:
\* return False, whatever was written before stays
us_raise(s, at) ==
  /\ StoreError(s, at)
  /\ Return(s, fr[s], Raised(s, IF at = "us_select" THEN Read(hist[s]) ELSE hist[s]),
            FALSE, FALSE, NoId)
  /\ UNCHANGED <<stock, ledger, transaction_date, sales, sale_items>>

(* ----------------------------------------------------- SalesManager calls *)
\* sales.py:116-135  a caller invokes process_sale(cart_items, ..); an empty
\* cart returns None at once (the loops of 138 and 170 run once per line)
process_sale(s, cart) ==
  /\ CanCall(s)
  /\ LET f == [IdleFrame EXCEPT !.op = "process_sale", !.cart = cart,
                                !.user_id = s, !.i = 1]
     IN IF EmptyCart(cart)
          THEN Step(s, "done", [f EXCEPT !.ret_sale = NoId], EnterCall(s), FALSE, NoId)
          ELSE Step(s, IF Len(cart) > 0 THEN "ps_check" ELSE "ps_gen", f,
                    EnterCall(s), FALSE, NoId)
  /\ UNCHANGED <<stock, ledger, transaction_date, sales, sale_items, nfails>>

\* sales.py:138-143 with inventory.py:247-253  check_stock_availability of
\* cart line i
ps_check(s) ==
  /\ pc[s] = "ps_check"
  /\ LET f    == fr[s]
         h    == hist[s]
         item == f.cart[f.i]
     IN IF item.product_id \in Products
           /\ Available(stock[item.product_id], item.quantity)
          THEN IF f.i < Len(f.cart)
                 THEN Step(s, "ps_check", [f EXCEPT !.i = f.i + 1],
                           Checked(Read(h)), FALSE, NoId)
                 ELSE Step(s, "ps_gen", f, Checked(Read(h)), FALSE, NoId)
          ELSE Step(s, "done", [f EXCEPT !.ret_sale = NoId], Read(h), FALSE, NoId)
  /\ UNCHANGED <<stock, ledger, transaction_date, sales, sale_items, nfails>>

\* inventory.py:254-256  a store error makes check_stock_availability answer
\* False, so process_sale returns None (sales.py:139-143)
ps_check_raise(s) ==
  /\ StoreError(s, "ps_check")
  /\ Step(s, "done", [fr[s] EXCEPT !.ret_sale = NoId], Raised(s, Read(hist[s])), FALSE, NoId)
  /\ UNCHANGED <<stock, ledger, transaction_date, sales, sale_items>>

\* sales.py:146-147 with 72-83  calculate_totals (no store access) and
\* generate_sale_number: SELECT COUNT(*) of today's sales
ps_gen(s) ==
  /\ pc[s] = "ps_gen"
  /\ Step(s, "ps_header", [fr[s] EXCEPT !.sale_number = SaleNumber(today, SalesToday)],
          Read(hist[s]), FALSE, NoId)
  /\ UNCHANGED <<stock, ledger, transaction_date, sales, sale_items, nfails>>

\* sales.py:84-87  the count query raised: fallback sale number
ps_gen_raise(s) ==
  /\ StoreError(s, "ps_gen")
  /\ Step(s, "ps_header", [fr[s] EXCEPT !.sale_number = FallbackSaleNumber(today)],
          Raised(s, Read(hist[s])), FALSE, NoId)
  /\ UNCHANGED <<stock, ledger, transaction_date, sales, sale_items>>

\* slip: the line loop begins at the last line of the cart
ps_header_last(s) ==
  /\ pc[s] = "ps_header"
  /\ \E totals \in CalculateTotals(fr[s].cart, DiscountPercent) :
       sales' = Append(sales,
                       StoredSale(SaleRow(fr[s].sale_number, fr[s].user_id, totals)))
  /\ Step(s, IF Len(fr[s].cart) > 0 THEN "ps_item" ELSE "done",
          [fr[s] EXCEPT !.sale_id = Len(sales) + 1, !.i = Len(fr[s].cart),
                        !.ret_sale = IF Len(fr[s].cart) > 0 THEN @ ELSE Len(sales) + 1],
          Log(Write(hist[s]), "header", 0), TRUE, NoId)
  /\ UNCHANGED <<stock, ledger, transaction_date, sale_items, nfails>>

\* sales.py:145, 149-162  totals = calculate_totals(cart_items,
\* discount_percent); INSERT INTO sales; sale_id = lastrowid
ps_header(s) ==
  /\ pc[s] = "ps_header"
  /\ \E totals \in CalculateTotals(fr[s].cart, DiscountPercent) :
       sales' = Append(sales,
                       StoredSale(SaleRow(fr[s].sale_number, fr[s].user_id, totals)))
  /\ IF Len(fr[s].cart) > 0
       THEN Step(s, "ps_item", [fr[s] EXCEPT !.sale_id = Len(sales) + 1, !.i = 1],
                 Log(Write(hist[s]), "header", 0), TRUE, NoId)
       ELSE Step(s, "done", [fr[s] EXCEPT !.sale_id = Len(sales) + 1,
                                          !.ret_sale = Len(sales) + 1],
                 Log(Write(hist[s]), "header", 0), TRUE, NoId)
  /\ UNCHANGED <<stock, ledger, transaction_date, sale_items, nfails>>

\* sales.py:170-185  INSERT INTO sale_items for cart line i, then the call
\* update_stock(product_id, -quantity, 'sale', cashier_id, sale_id, note)
ps_item(s) ==
  /\ pc[s] = "ps_item"
  /\ LET f    == fr[s]
         item == f.cart[f.i]
     IN /\ sale_items' = Append(sale_items, SaleItemRow(f.sale_id, item))
        /\ Step(s, "us_select",
                [f EXCEPT !.product_id = item.product_id,
                          !.quantity_change = SaleDelta(item.quantity),
                          !.transaction_type = "sale",
                          !.reference_id = f.sale_id,
                          !.notes = SaleNotes(f.sale_number)],
                EnterUS(Log(Write(hist[s]), "item", f.i), item.product_id), TRUE, NoId)
  /\ UNCHANGED <<stock, ledger, transaction_date, sales, nfails>>

\* sales.py:189-191  a store error of the INSERT INTO sales or of an INSERT
\* INTO sale_items is caught by process_sale: return None
ps_raise(s, at) ==
  /\ StoreError(s, at)
  /\ Step(s, "done", [fr[s] EXCEPT !.ret_sale = NoId], Raised(s, hist[s]), FALSE, NoId)
  /\ UNCHANGED <<stock, ledger, transaction_date, sales, sale_items>>

(* ------------------------------------------------------------------ Next *)
Call(s) ==
  \/ \E p \in ProductIds, d \in Deltas, k \in Kinds : update_stock(s, p, d, k)
  \/ \E p \in ProductIds, q \in Deltas : restock_product(s, p, q)
  \/ \E p \in ProductIds, q \in Targets : adjust_stock(s, p, q)
  \/ \E cart \in Carts : process_sale(s, cart)

Statement(s) ==
  \/ adj_select(s)
  \/ us_select(s)
  \/ us_update(s)
  \/ us_insert(s)
  \/ ps_check(s)
  \/ ps_gen(s)
  \/ ps_header(s)
  \/ ps_item(s)

Raise(s) ==
  \/ adj_select_raise(s)
  \/ \E at \in {"us_select", "us_update", "us_insert"} : us_raise(s, at)
  \/ ps_check_raise(s)
  \/ ps_gen_raise(s)
  \/ \E at \in {"ps_header", "ps_item"} : ps_raise(s, at)

\* two sessions, the store never fails
Next == \E s \in Sessions : Call(s) \/ Statement(s)

Spec == Init /\ [][Next]_vars

\* one session, statements may raise store errors
NextF == Call(1) \/ Statement(1) \/ Raise(1)

SpecF == Init /\ [][NextF]_vars

(* ------------------------------------------- one cashier, sale after sale *)
\* carts of at most one line
ShortCarts == {cart \in Carts : Len(cart) <= 1}

\* the shelves hold enough for MaxSales sales
InitN ==
  /\ stock = [p \in InitialProducts |-> MaxSales * MaxQty]
  /\ ledger = <<>>
  /\ sales = <<>>
  /\ sale_items = <<>>
  /\ pc = [s \in Sessions |-> "idle"]
  /\ fr = [s \in Sessions |-> IdleFrame]
  /\ hist = [s \in Sessions |-> IdleHist]
  /\ nfails = 0
  /\ today = Today
  /\ tot = NoCall
  /\ prod = [p \in InitialProducts |-> InitialProduct(p)]
  /\ pm = NoProductCall
  /\ activity_logs = <<>>
  /\ lg = NoLogCall
  /\ users = InitialUsers
  /\ um = NoUserCall
  /\ now = 0
  /\ transaction_date = <<>>
  /\ qr = NoQuery

\* the call of the session has returned and the cashier turns to the next
\* sale
next_call(s) ==
  /\ pc[s] = "done"
  /\ Len(sales) < MaxSales
  /\ pc' = [pc EXCEPT ![s] = "idle"]
  /\ UNCHANGED <<stock, ledger, transaction_date, sales, sale_items, fr, hist, nfails,
                 today, tot, prod, pm, activity_logs, lg, users, um, now, qr>>

\* midnight passes between two sales
next_day ==
  /\ \A s \in Sessions : pc[s] \in {"idle", "done"}
  /\ today < Today + MaxDays
  /\ today' = today + 1
  /\ UNCHANGED <<stock, ledger, transaction_date, sales, sale_items, pc, fr, hist,
                 nfails, tot, prod, pm, activity_logs, lg, users, um, now, qr>>

NextN ==
  \/ \E cart \in ShortCarts : process_sale(1, cart)
  \/ ps_check(1) \/ ps_gen(1) \/ ps_header(1) \/ ps_item(1)
  \/ us_select(1) \/ us_update(1) \/ us_insert(1)
  \/ next_call(1)
  \/ next_day

SpecN == InitN /\ [][NextN]_vars

(* --------------------------------------------------- ProductManager calls *)
\* products.py:85-135  update_product(product_id, barcode, .., category_id,
\* unit_price, ..): one UPDATE of the named columns, or False at once when no
\* column is named; the UPDATE of a missing row changes nothing and the call
\* still returns True; an UPDATE the store refuses (a barcode another product
\* has) changes nothing and the call returns False (products.py:131-135)
update_product(product_id, barcode, category_id, unit_price) ==
  LET updates == Updates(barcode, category_id, unit_price)
  IN /\ IF \/ updates = {}
             \/ /\ "barcode" \in updates /\ product_id \in Products
                /\ BarcodeTaken(barcode, product_id)
          THEN /\ pm' = ProductCall("update_product", FALSE)
               /\ prod' = prod
          ELSE /\ pm' = ProductCall("update_product", TRUE)
               /\ prod' = [p \in Products |->
                    IF p # product_id THEN prod[p]
                    ELSE [prod[p] EXCEPT
                            !.barcode = IF "barcode" \in updates THEN barcode ELSE @,
                            !.category_id =
                               IF "category_id" \in updates THEN category_id ELSE @,
                            !.unit_price =
                               IF "unit_price" \in updates THEN unit_price ELSE @]]
     /\ UNCHANGED <<stock, ledger, transaction_date, sales, sale_items, pc, fr, hist,
                    nfails, today, tot, activity_logs, lg, users, um, now, qr>>

\* products.py:138-155  delete_product: UPDATE products SET is_active = FALSE
delete_product(product_id) ==
  /\ pm' = ProductCall("delete_product", TRUE)
  /\ prod' = [p \in Products |->
       IF p = product_id THEN [prod[p] EXCEPT !.is_active = FALSE] ELSE prod[p]]
  /\ UNCHANGED <<stock, ledger, transaction_date, sales, sale_items, pc, fr, hist,
                 nfails, today, tot, activity_logs, lg, users, um, now, qr>>

\* one session of stock and sale calls, while products are edited
NextP ==
  \/ Call(1)
  \/ Statement(1)
  \/ \E p \in EditedIds, b \in BarcodeArgs, c \in CategoryArgs, u \in PriceArgs :
       update_product(p, b, c, u)
  \/ \E p \in ProductIds : delete_product(p)

SpecP == Init /\ [][NextP]_vars

(* -------------------------------------------------- the product catalogue *)
NewBarcodes    == {"B2", "B3"}            \* one that is taken, one that is free
LookupBarcodes == {"B1", "B2", "B3", "B9", "B0"}

\* the Product built from the row of product p (products.py:180, 209)
ProductOf(p) ==
  [product_id |-> p, barcode |-> prod[p].barcode,
   category_id |-> prod[p].category_id, unit_price |-> prod[p].unit_price,
   stock_quantity |-> stock[p], is_active |-> prod[p].is_active]

\* products.py:47-82  create_product: INSERT INTO products; the new row gets
\* the next product_id and is active; a refused INSERT returns None
create_product(barcode, category_id, unit_price, stock_quantity) ==
  LET new == Cardinality(Products) + 1
  IN /\ new \in ProductIds
     /\ IF BarcodeTaken(barcode, new)
          THEN /\ pm' = ProductCall("create_product", FALSE)
               /\ UNCHANGED <<stock, prod>>
          ELSE /\ stock' = [p \in Products \cup {new} |->
                              IF p = new THEN stock_quantity ELSE stock[p]]
               /\ prod' = [p \in Products \cup {new} |->
                             IF p = new
                               THEN [barcode |-> barcode, category_id |-> category_id,
                                     unit_price |-> unit_price, is_active |-> TRUE]
                               ELSE prod[p]]
               /\ pm' = [ProductCall("create_product", TRUE) EXCEPT
                           !.found = [NoProduct EXCEPT !.product_id = new]]
     /\ UNCHANGED <<ledger, transaction_date, sales, sale_items, pc, fr, hist, nfails,
                    today, tot, activity_logs, lg, users, um, now, qr>>

\* products.py:158-184  get_product_by_id: the row with this id, active or not
get_product_by_id(product_id) ==
  /\ pm' = [op |-> "get_product_by_id", ret |-> product_id \in Products,
            arg |-> <<product_id>>,
            found |-> IF product_id \in Products THEN ProductOf(product_id)
                      ELSE NoProduct]
  /\ UNCHANGED <<stock, ledger, transaction_date, sales, sale_items, pc, fr, hist,
                 nfails, today, tot, prod, activity_logs, lg, users, um, now, qr>>

\* products.py:187-213  get_product_by_barcode: fetch_one gives the first row
\* the query finds, None when it finds no row
get_product_by_barcode(barcode) ==
  /\ IF Matching(barcode) = {}
       THEN pm' = [op |-> "get_product_by_barcode", ret |-> FALSE,
                   arg |-> <<barcode>>, found |-> NoProduct]
       ELSE \E p \in Matching(barcode) :
              pm' = [op |-> "get_product_by_barcode", ret |-> TRUE,
                     arg |-> <<barcode>>, found |-> ProductOf(p)]
  /\ UNCHANGED <<stock, ledger, transaction_date, sales, sale_items, pc, fr, hist,
                 nfails, today, tot, prod, activity_logs, lg, users, um, now, qr>>

\* products are created, given another barcode, deactivated and looked up
\* while one session restocks
NextC ==
  \/ \E b \in NewBarcodes, q \in 0..MaxQty : create_product(b, 7, 250, q)
  \/ \E p \in EditedIds, b \in BarcodeArgs : update_product(p, b, NoneInt, NoneInt)
  \/ \E p \in ProductIds : delete_product(p)
  \/ \E p \in ProductIds : get_product_by_id(p)
  \/ \E b \in LookupBarcodes : get_product_by_barcode(b)
  \/ \E p \in ProductIds, q \in Quantities : restock_product(1, p, q)
  \/ us_select(1) \/ us_update(1) \/ us_insert(1)

SpecC == Init /\ [][NextC]_vars

(* ------------------------------------------- a function under log_action *)
\* the frame of every step of a wrapped call: no other table is touched
LogFrame ==
  UNCHANGED <<stock, ledger, transaction_date, sales, sale_items, pc, fr, hist, nfails,
              today, tot, prod, pm, users, um, now, qr>>

\* logs.py:165-179  wrapper: result = func(*args, **kwargs), then the acting
\* user is looked up and the wrapper decides whether to log
la_func(user_id, args, result) ==
  /\ lg.pc = "idle"
  /\ LET log_user == UserIdOf(user_id, args)
     IN lg' = [NoLogCall EXCEPT
                 !.pc = IF ShouldLog(log_user, result) THEN "log" ELSE "return",
                 !.user_id = user_id, !.args = args, !.result = result,
                 !.log_user = log_user]
  /\ UNCHANGED activity_logs
  /\ LogFrame

\* logs.py:65-75  log_activity: the INSERT INTO activity_logs succeeds;
\* return True
la_log ==
  /\ lg.pc = "log"
  /\ activity_logs' = Append(activity_logs,
       ActivityRow(lg.log_user, "create", "product", EntityId(lg.result)))
  /\ lg' = [lg EXCEPT !.pc = "return", !.log_ret = "True"]
  /\ LogFrame

\* logs.py:76-78  log_activity: the INSERT raises; the error is caught and
\* written to the file log; return False
la_log_raise ==
  /\ lg.pc = "log"
  /\ lg' = [lg EXCEPT !.pc = "return", !.log_ret = "False"]
  /\ UNCHANGED activity_logs
  /\ LogFrame

\* logs.py:186  return result
la_return ==
  /\ lg.pc = "return"
  /\ lg' = [lg EXCEPT !.pc = "done", !.ret = WrapperResult(lg.result, lg.log_ret)]
  /\ UNCHANGED activity_logs
  /\ LogFrame

NextL ==
  \/ \E u \in {NoId, 1}, args \in ArgLists, r \in Results : la_func(u, args, r)
  \/ la_log
  \/ la_log_raise
  \/ la_return

SpecL == Init /\ [][NextL]_vars

(* ------------------------------------------------------------ UserManager *)
\* Every operation of UserManager issues one statement, except
\* change_password, whose SELECT and UPDATE are taken as one step: the
\* operations here are called one after the other.
UserFrame ==
  UNCHANGED <<stock, ledger, transaction_date, sales, sale_items, pc, fr, hist, nfails,
              today, tot, prod, pm, activity_logs, lg, now, qr>>

\* users.py:74-109  authenticate: the active row with this username, if its
\* hash verifies the password
authenticate(username, password) ==
  /\ IF LoginRows(username) = {}
       THEN um' = [UserCall("authenticate") EXCEPT
                     !.username = username, !.password = password]
       ELSE \E u \in LoginRows(username) :
              um' = [UserCall("authenticate") EXCEPT
                       !.username = username, !.password = password,
                       !.ret = IF VerifyPassword(password, users[u].password_hash)
                                 THEN u ELSE NoId]
  /\ UNCHANGED users
  /\ UserFrame

\* users.py:111-171  create_user: the four validations, then the hash, then
\* the INSERT INTO users; the new row gets the next user_id and is active
create_user(username, password, full_name, role, email, phone) ==
  LET call == [UserCall("create_user") EXCEPT
                 !.username = username, !.password = password,
                 !.full_name = full_name, !.role = role, !.email = email,
                 !.phone = phone]
      new  == Cardinality(DOMAIN users) + 1
  IN /\ new \in UserIds
     /\ IF \/ ~validate_username(username)
           \/ ~validate_password(password)
           \/ Given(email) /\ ~validate_email(email)
           \/ Given(phone) /\ ~validate_phone(phone)
           \/ UsernameTaken(username)
          THEN um' = call /\ UNCHANGED users
          ELSE \E salt \in Salts :
                 /\ users' = [u \in DOMAIN users \cup {new} |->
                      IF u = new
                        THEN [username |-> username,
                              password_hash |-> HashPassword(password, salt),
                              full_name |-> full_name, role |-> role,
                              email |-> email, phone |-> phone,
                              is_active |-> TRUE, deleted |-> FALSE]
                        ELSE users[u]]
                 /\ um' = [call EXCEPT !.ret = new]
     /\ UserFrame

\* users.py:173-236  update_user: full_name and role are set when truthy,
\* email and phone when not None (validated when not empty); one UPDATE
update_user(user_id, full_name, email, phone, role) ==
  LET call == [UserCall("update_user") EXCEPT
                 !.user_id = user_id, !.full_name = full_name, !.role = role,
                 !.email = email, !.phone = phone]
      updates == (IF full_name # "" THEN {"full_name"} ELSE {})
                 \cup (IF email # NoneChars THEN {"email"} ELSE {})
                 \cup (IF phone # NoneChars THEN {"phone"} ELSE {})
                 \cup (IF role # "" THEN {"role"} ELSE {})
  IN /\ IF \/ Given(email) /\ ~validate_email(email)
           \/ Given(phone) /\ ~validate_phone(phone)
           \/ role # "" /\ ~ValidRole(role)
           \/ updates = {}
          THEN um' = call /\ UNCHANGED users
          ELSE /\ users' = UpdateUser(user_id,
                    [users[user_id] EXCEPT
                       !.full_name = IF "full_name" \in updates THEN full_name ELSE @,
                       !.email = IF "email" \in updates THEN email ELSE @,
                       !.phone = IF "phone" \in updates THEN phone ELSE @,
                       !.role = IF "role" \in updates THEN role ELSE @])
               /\ um' = [call EXCEPT !.ok = TRUE]
     /\ UserFrame

\* users.py:238-281  change_password: the new password is validated, the old
\* one verified against the stored hash, then the UPDATE
change_password(user_id, old_password, new_password) ==
  LET call == [UserCall("change_password") EXCEPT
                 !.user_id = user_id, !.old_password = old_password,
                 !.password = new_password]
  IN /\ IF \/ ~validate_password(new_password)
           \/ user_id \notin UserRows
           \/ ~VerifyPassword(old_password, users[user_id].password_hash)
          THEN um' = call /\ UNCHANGED users
          ELSE \E salt \in Salts :
                 /\ users' = UpdateUser(user_id,
                      [users[user_id] EXCEPT
                         !.password_hash = HashPassword(new_password, salt)])
                 /\ um' = [call EXCEPT !.ok = TRUE]
     /\ UserFrame

\* users.py:283-311  reset_password: the new password is validated, then the
\* UPDATE
reset_password(user_id, new_password) ==
  LET call == [UserCall("reset_password") EXCEPT
                 !.user_id = user_id, !.password = new_password]
  IN /\ IF ~validate_password(new_password)
          THEN um' = call /\ UNCHANGED users
          ELSE \E salt \in Salts :
                 /\ users' = UpdateUser(user_id,
                      [users[user_id] EXCEPT
                         !.password_hash = HashPassword(new_password, salt)])
                 /\ um' = [call EXCEPT !.ok = TRUE]
     /\ UserFrame

\* users.py:313-332  deactivate_user: UPDATE users SET is_active = FALSE
deactivate_user(user_id) ==
  /\ users' = UpdateUser(user_id, [users[user_id] EXCEPT !.is_active = FALSE])
  /\ um' = [UserCall("deactivate_user") EXCEPT !.user_id = user_id, !.ok = TRUE]
  /\ UserFrame

\* users.py:334-353  activate_user: UPDATE users SET is_active = TRUE
activate_user(user_id) ==
  /\ users' = UpdateUser(user_id, [users[user_id] EXCEPT !.is_active = TRUE])
  /\ um' = [UserCall("activate_user") EXCEPT !.user_id = user_id, !.ok = TRUE]
  /\ UserFrame

\* users.py:355-379  delete_user: user 1 is never deleted; DELETE FROM users
delete_user(user_id) ==
  /\ IF user_id = 1
       THEN um' = [UserCall("delete_user") EXCEPT !.user_id = user_id]
            /\ UNCHANGED users
       ELSE /\ users' = UpdateUser(user_id, [users[user_id] EXCEPT !.deleted = TRUE])
            /\ um' = [UserCall("delete_user") EXCEPT !.user_id = user_id, !.ok = TRUE]
  /\ UserFrame

\* the arguments of the calls
CreateArgs ==
  {<<Bob, Pass12, NoneChars, NoneChars>>, <<Bob, Word34, Mail, Phone>>,
   <<Admin, Pass12, NoneChars, NoneChars>>,
   <<BadName, Pass12, Mail, Phone>>, <<Bob, BadPass, Mail, Phone>>,
   <<Bob, Pass12, BadMail, Phone>>, <<Bob, Pass12, DotMail, NoneChars>>,
   <<Bob, Pass12, Mail, BadPhone>>}
UpdateArgs ==
  {<<"Bob B", Mail, Phone, "admin">>, <<"", NoneChars, NoneChars, "">>,
   <<"", <<>>, NoneChars, "cashier">>,
   <<"Bob B", BadMail, Phone, "admin">>, <<"Bob B", Mail, BadPhone, "admin">>,
   <<"Bob B", Mail, Phone, "manager">>, <<"", DotMail, NoneChars, "">>}
Logins    == {Admin, Bob, BadName}
Passwords == {Admin123, Pass12, Word34}

NextU ==
  \/ \E u \in Logins, p \in Passwords : authenticate(u, p)
  \/ \E a \in CreateArgs : create_user(a[1], a[2], "Bob", "cashier", a[3], a[4])
  \/ \E u \in {2}, a \in UpdateArgs : update_user(u, a[1], a[2], a[3], a[4])
  \/ \E u \in {2, 3}, o \in {Admin123, Pass12}, n \in {Word34, BadPass} :
       change_password(u, o, n)
  \/ \E u \in {2, 3}, n \in {Pass12, BadPass} : reset_password(u, n)
  \/ \E u \in UserIds : deactivate_user(u)
  \/ \E u \in UserIds : activate_user(u)
  \/ \E u \in {1, 2} : delete_user(u)

SpecU == Init /\ [][NextU]_vars

(* -------------------------------------------- the ledger and its queries *)
MaxRows  == 2      \* ledger rows after which the caller begins no new call
MaxClock == 1      \* ticks of the store's clock

\* the call of the session has returned and the caller turns to the next one
next_entry(s) ==
  /\ pc[s] = "done"
  /\ Len(ledger) < MaxRows
  /\ pc' = [pc EXCEPT ![s] = "idle"]
  /\ UNCHANGED <<stock, ledger, transaction_date, sales, sale_items, fr, hist, nfails,
                 today, tot, prod, pm, activity_logs, lg, users, um, now, qr>>

\* the clock of the store moves on: the transaction_date of two rows is the
\* same when no tick lies between their INSERTs
tick ==
  /\ now < MaxClock
  /\ now' = now + 1
  /\ UNCHANGED <<stock, ledger, transaction_date, sales, sale_items, pc, fr, hist,
                 nfails, today, tot, prod, pm, activity_logs, lg, users, um, qr>>

\* inventory.py:155-197  get_inventory_transactions(product_id,
\* transaction_type, limit), called between two calls of the session
get_inventory_transactions(product_id, transaction_type, limit) ==
  /\ \A s \in Sessions : pc[s] \in {"idle", "done"}
  /\ \E r \in OrderedLimit(Filtered(product_id, transaction_type), limit) :
       qr' = [called |-> TRUE, product_id |-> product_id,
              transaction_type |-> transaction_type, limit |-> limit,
              nrows |-> Len(ledger), rows |-> r]
  /\ UNCHANGED <<stock, ledger, transaction_date, sales, sale_items, pc, fr, hist,
                 nfails, today, tot, prod, pm, activity_logs, lg, users, um, now>>

NextQ ==
  \/ \E p \in InitialProducts, q \in Quantities : restock_product(1, p, q)
  \/ \E p \in InitialProducts, k \in Kinds : update_stock(1, p, 1, k)
  \/ us_select(1) \/ us_update(1) \/ us_insert(1)
  \/ next_entry(1)
  \/ tick
  \/ \E p \in {NoId, 1}, k \in {"", "restock"}, n \in 1..2 :
       get_inventory_transactions(p, k, n)

SpecQ == Init /\ [][NextQ]_vars

(* ------------------------------------------- calculate_totals on its own *)
\* a caller holds a cart and a discount percent
InitT ==
  /\ stock = [p \in InitialProducts |-> InitStock]
  /\ ledger = <<>>
  /\ sales = <<>>
  /\ sale_items = <<>>
  /\ pc = [s \in Sessions |-> "idle"]
  /\ fr = [s \in Sessions |-> IdleFrame]
  /\ hist = [s \in Sessions |-> IdleHist]
  /\ nfails = 0
  /\ today = Today
  /\ \E cart \in PricedCarts, p \in Percents :
       tot = [NoCall EXCEPT !.cart_items = cart, !.discount_percent = p]
  /\ prod = [p \in InitialProducts |-> InitialProduct(p)]
  /\ pm = NoProductCall
  /\ activity_logs = <<>>
  /\ lg = NoLogCall
  /\ users = InitialUsers
  /\ um = NoUserCall
  /\ now = 0
  /\ transaction_date = <<>>
  /\ qr = NoQuery

\* sales.py:89-113  calculate_totals(cart_items, discount_percent): no store
\* access, the cart is only read
calculate_totals ==
  /\ ~tot.called
  /\ \E r \in CalculateTotals(tot.cart_items, tot.discount_percent) :
       tot' = [tot EXCEPT !.called = TRUE, !.totals = r]
  /\ UNCHANGED <<stock, ledger, transaction_date, sales, sale_items, pc, fr, hist,
                 nfails, today, prod, pm, activity_logs, lg, users, um, now, qr>>

NextT == calculate_totals

SpecT == InitT /\ [][NextT]_vars

TypeOK ==
  /\ stock \in [Products -> Int]
  /\ pc \in [Sessions -> {"idle", "done", "adj_select", "us_select", "us_update",
                          "us_insert", "ps_check", "ps_gen", "ps_header", "ps_item"}]
  /\ nfails \in 0..MaxFail
  /\ today \in Dates

(* ---------------------------------------------------------------- claims *)
\* the ledger rows about product p appended after the first n rows
RowsSince(n, p) ==
  SelectSeq(SubSeq(ledger, n + 1, Len(ledger)), LAMBDA r : r.product_id = p)

\* the last update_stock invocation of session s has returned
Returned(s) == hist[s].u_state = "returned"

\* C1: whenever an update_stock invocation has returned True and no other
\* session has written the product since the invocation began, the product's
\* stock is the stock at the beginning plus the delta, and exactly one ledger
\* row about the product was appended, carrying the stock before, the stock
\* after, the delta and the kind, reference id, note and user of the call.
C1_UpdateStockApplies ==
  \A s \in Sessions :
    (Returned(s) /\ fr[s].us_ret /\ ~hist[s].u_touched) =>
      LET f == fr[s]
          h == hist[s]
      IN /\ f.product_id \in Products
         /\ stock[f.product_id] = h.u_stock + f.quantity_change
         /\ RowsSince(h.u_nledger, f.product_id) =
              << [product_id       |-> f.product_id,
                  transaction_type |-> f.transaction_type,
                  quantity_change  |-> f.quantity_change,
                  previous_stock   |-> h.u_stock,
                  new_stock        |-> h.u_stock + f.quantity_change,
                  reference_id     |-> f.reference_id,
                  notes            |-> f.notes,
                  user_id          |-> f.user_id] >>

\* C1 witness: an update_stock with a non-zero delta has returned True,
\* untouched, while the other session appended a row about another product
C1_Witness ==
  \E s \in Sessions :
    /\ Returned(s) /\ fr[s].us_ret /\ ~hist[s].u_touched
    /\ fr[s].quantity_change # 0
    /\ Len(ledger) > hist[s].u_nledger + 1

\* C2: whenever the stock of the product at the beginning of an update_stock
\* invocation plus the delta is negative (and no other session writes the
\* product meanwhile), the invocation returns False, has written nothing, the
\* stock is unchanged and no ledger row about the product was appended.
C2_InsufficientRejected ==
  \A s \in Sessions :
    (Returned(s) /\ ~hist[s].u_touched /\ fr[s].product_id \in Products
       /\ hist[s].u_stock + fr[s].quantity_change < 0) =>
      /\ ~fr[s].us_ret
      /\ hist[s].u_writes = 0
      /\ stock[fr[s].product_id] = hist[s].u_stock
      /\ RowsSince(hist[s].u_nledger, fr[s].product_id) = <<>>

\* C2 witness: an update_stock whose delta exceeds the stock has returned
C2_Witness ==
  \E s \in Sessions :
    /\ Returned(s) /\ ~hist[s].u_touched /\ fr[s].product_id \in Products
    /\ hist[s].u_stock + fr[s].quantity_change < 0
    /\ fr[s].op \in {"update_stock", "restock_product"}

\* C3: in every reachable state every product's stock_quantity is >= 0.
C3_StockNeverNegative == \A p \in Products : stock[p] >= 0

\* C3 witness: both sessions took stock out of the same product, one of them
\* was refused because the result would have been negative, the stock is 0
C3_Witness ==
  \E s, t \in Sessions, p \in Products :
    /\ s # t /\ stock[p] = 0
    /\ fr[s].product_id = p /\ fr[t].product_id = p
    /\ Returned(s) /\ fr[s].us_ret /\ fr[s].quantity_change < 0
    /\ Returned(t) /\ ~fr[t].us_ret /\ fr[t].new_stock < 0

(* ------------------------------------------------------ claims on sales *)
RECURSIVE SeqSum(_)
SeqSum(q) == IF q = <<>> THEN 0 ELSE Head(q) + SeqSum(Tail(q))

\* quantity of product p in the sale_items rows of sale sid
SoldQuantity(sid, p) ==
  LET rows == SelectSeq(sale_items, LAMBDA r : r.sale_id = sid /\ r.product_id = p)
  IN SeqSum([i \in 1..Len(rows) |-> rows[i].quantity])

\* sum of quantity_change over the ledger rows of kind 'sale' that refer to
\* sale sid and product p
LedgerSaleChange(sid, p) ==
  LET rows == SelectSeq(ledger, LAMBDA r : /\ r.transaction_type = "sale"
                                           /\ r.reference_id = sid
                                           /\ r.product_id = p)
  IN SeqSum([i \in 1..Len(rows) |-> rows[i].quantity_change])

\* quantity of product p in a cart
CartQuantity(cart, p) ==
  LET rows == SelectSeq(cart, LAMBDA r : r.product_id = p)
  IN SeqSum([i \in 1..Len(rows) |-> rows[i].quantity])

SaleDone(s) == fr[s].op = "process_sale" /\ pc[s] = "done"

\* a cart line that check_stock_availability refuses when the stocks are st
BadLine(item, st) ==
  item.product_id \notin Products \/ item.quantity > st[item.product_id]

\* session s persisted nothing since its call began
NothingPersisted(s) ==
  /\ hist[s].h_writes = 0
  /\ ~hist[s].h_touched =>
       /\ Len(sales) = hist[s].h_nsales
       /\ Len(sale_items) = hist[s].h_nitems
       /\ Len(ledger) = hist[s].h_nledger
       /\ stock = hist[s].h_stock

\* C4: for every sale for which process_sale returned a sale id and every
\* product, the quantity of the sale's sale_items rows equals the negated sum
\* of quantity_change over the 'sale' ledger rows that refer to the sale.
C4_SaleMatchesLedger ==
  \A s \in Sessions :
    (SaleDone(s) /\ fr[s].ret_sale # NoId) =>
      \A p \in Products :
        SoldQuantity(fr[s].ret_sale, p) = -LedgerSaleChange(fr[s].ret_sale, p)

\* C5: if the persistence of a line item or the ledger update of a cart line
\* failed during process_sale, process_sale returns None.
C5_LineFailureReported ==
  \A s \in Sessions :
    (SaleDone(s) /\ (hist[s].h_usfalse \/ hist[s].h_failed_after)) =>
      fr[s].ret_sale = NoId

\* C6: a process_sale whose cart has a line that asks for more than the
\* product's stock at the call, or names a product without a row, persists
\* nothing and returns None (no other session writing meanwhile); and no
\* process_sale writes before every line of its cart has passed the check.
C6_UnavailablePersistsNothing ==
  \A s \in Sessions :
    fr[s].op = "process_sale" =>
      /\ ( /\ \E i \in 1..Len(fr[s].cart) : BadLine(fr[s].cart[i], hist[s].h_stock)
           /\ ~hist[s].h_touched )
           => /\ NothingPersisted(s)
              /\ pc[s] \in {"ps_check", "done"}
              /\ pc[s] = "done" => fr[s].ret_sale = NoId
      /\ hist[s].h_writes > 0 => hist[s].h_checked = Len(fr[s].cart)

\* C6 witness: a two-line cart whose second line is the unavailable one has
\* been refused after its first line passed the check
C6_Witness ==
  \E s \in Sessions :
    /\ SaleDone(s) /\ ~hist[s].h_touched
    /\ Len(fr[s].cart) = 2
    /\ BadLine(fr[s].cart[2], hist[s].h_stock)
    /\ hist[s].h_checked = 1

\* C7: process_sale with an empty cart returns None at once: it issues no
\* read and no write, and nothing is persisted.
C7_EmptyCartPersistsNothing ==
  \A s \in Sessions :
    (fr[s].op = "process_sale" /\ fr[s].cart = <<>>) =>
      /\ pc[s] = "done"
      /\ fr[s].ret_sale = NoId
      /\ hist[s].h_reads = 0
      /\ NothingPersisted(s)

\* C7 witness: an empty-cart sale has returned
C7_Witness ==
  \E s \in Sessions : SaleDone(s) /\ fr[s].cart = <<>> /\ ~hist[s].h_touched

\* the check of every line of the cart of session s has answered True
PassedCheck(s) ==
  /\ fr[s].op = "process_sale"
  /\ Len(fr[s].cart) > 0
  /\ hist[s].h_checked = Len(fr[s].cart)

\* C8: nothing after check_stock_availability stops a sale: whenever two
\* sessions have both passed the check of all their lines, both return a sale
\* id and all their lines are recorded in sale_items, whatever the stock has
\* become in between.
C8_CheckedSalesBothReturn ==
  \A s, t \in Sessions :
    (s # t /\ PassedCheck(s) /\ PassedCheck(t) /\ pc[s] = "done" /\ pc[t] = "done") =>
      /\ fr[s].ret_sale # NoId
      /\ fr[t].ret_sale # NoId
      /\ fr[s].ret_sale # fr[t].ret_sale
      /\ \A p \in Products :
           SoldQuantity(fr[s].ret_sale, p) + SoldQuantity(fr[t].ret_sale, p)
             = CartQuantity(fr[s].cart, p) + CartQuantity(fr[t].cart, p)

\* C8 witness: two sessions sold quantity q of the same product whose stock
\* s0 had q <= s0 < 2q, both returned a sale id, and sale_items records more
\* than s0 as sold
C8_Witness ==
  \E s, t \in Sessions, p \in Products, q \in Quantities :
    /\ s # t /\ SaleDone(s) /\ SaleDone(t)
    /\ fr[s].cart = <<CartLine(p, q)>> /\ fr[t].cart = <<CartLine(p, q)>>
    /\ hist[s].h_stock[p] = hist[t].h_stock[p]
    /\ q <= hist[s].h_stock[p] /\ hist[s].h_stock[p] < 2 * q
    /\ fr[s].ret_sale # NoId /\ fr[t].ret_sale # NoId
    /\ SoldQuantity(fr[s].ret_sale, p) + SoldQuantity(fr[t].ret_sale, p)
         > hist[s].h_stock[p]

\* the ledger rows about product p, oldest first
TrailOf(p) == SelectSeq(ledger, LAMBDA r : r.product_id = p)

\* an update_stock invocation about product p has begun and not returned
Updating(p) ==
  \E s \in Sessions : hist[s].u_state = "running" /\ fr[s].product_id = p

\* C9: the ledger of each product is a consistent ordered trail: every row
\* has new_stock = previous_stock + quantity_change, the first row starts at
\* the initial stock, each later row starts where the row before it ended,
\* and when no update_stock is running the latest row ends at the current
\* stock.
C9_LedgerTrail ==
  \A p \in Products :
    LET t == TrailOf(p)
    IN /\ \A i \in 1..Len(t) :
            t[i].new_stock = t[i].previous_stock + t[i].quantity_change
       /\ Len(t) > 0 => t[1].previous_stock = InitStock
       /\ \A i \in 1..(Len(t) - 1) : t[i + 1].previous_stock = t[i].new_stock
       /\ (Len(t) > 0 /\ ~Updating(p)) => t[Len(t)].new_stock = stock[p]

\* C10: if a statement after the insertion of the sales header raised a store
\* error, process_sale returns None, and the header stays persisted.
C10_ErrorAfterHeaderReturnsNone ==
  \A s \in Sessions :
    (SaleDone(s) /\ hist[s].h_failed_after) =>
      /\ fr[s].ret_sale = NoId
      /\ fr[s].sale_id \in 1..Len(sales)

(* ------------------------------------------------- order of the writes *)
\* position of a write in the order sales.py:158-187 prescribes: the header,
\* then for line 1, 2, ..: its sale_items row, its stock update, its ledger row
Rank(e) ==
  CASE e[1] = "header" -> 0
    [] e[1] = "item"   -> 3 * e[2] - 2
    [] e[1] = "stock"  -> 3 * e[2] - 1
    [] e[1] = "ledger" -> 3 * e[2]

\* the sale_items rows of sale sid, oldest first
ItemsOf(sid) == SelectSeq(sale_items, LAMBDA r : r.sale_id = sid)

\* the lines of the entries of kind what in a write log
LinesOf(log, what) ==
  LET es == SelectSeq(log, LAMBDA e : e[1] = what)
  IN [j \in 1..Len(es) |-> es[j][2]]

\* C11: within one process_sale the writes happen in a fixed order: the sales
\* header first; then, for the cart lines 1..n in cart order, the sale_items
\* row of line i before the ledger update (stock update, ledger row) of line
\* i, and both before anything of line i+1.  The sale_items rows of the sale
\* are the lines of the cart, in order, up to the line reached; the ledger
\* rows that refer to the sale are about the lines whose update went through,
\* in order.
C11_WriteOrder ==
  \A s \in Sessions :
    fr[s].op = "process_sale" =>
      LET log  == hist[s].h_log
          cart == fr[s].cart
          sid  == fr[s].sale_id
          its  == LinesOf(log, "item")
          leds == LinesOf(log, "ledger")
          refs == SelectSeq(ledger, LAMBDA r : r.reference_id = sid)
      IN /\ log # <<>> => log[1] = <<"header", 0>>
         /\ \A j, k \in 1..Len(log) : j < k => Rank(log[j]) < Rank(log[k])
         /\ its = [j \in 1..Len(its) |-> j]
         /\ \A j \in 1..Len(log) :
              log[j][1] \in {"stock", "ledger"} =>
                \E k \in 1..(j - 1) : log[k] = <<"item", log[j][2]>>
         /\ \A j \in 1..Len(log) :
              log[j][1] = "ledger" => j > 1 /\ log[j - 1] = <<"stock", log[j][2]>>
         /\ sid # NoId =>
              /\ ItemsOf(sid) = [j \in 1..Len(its) |-> SaleItemRow(sid, cart[j])]
              /\ [j \in 1..Len(refs) |-> refs[j].product_id]
                   = [j \in 1..Len(leds) |-> cart[leds[j]].product_id]

\* C11 witness: a sale of two lines has returned with all seven writes done
C11_Witness ==
  \E s \in Sessions :
    /\ SaleDone(s) /\ Len(fr[s].cart) = 2
    /\ hist[s].h_log = << <<"header", 0>>, <<"item", 1>>, <<"stock", 1>>,
                          <<"ledger", 1>>, <<"item", 2>>, <<"stock", 2>>,
                          <<"ledger", 2>> >>

(* ---------------------------------------------------------- sale numbers *)
\* the sales rows before row k that carry the date of row k
EarlierSameDate(k) == {j \in 1..(k - 1) : sales[j].sale_date = sales[k].sale_date}

\* C12: the sale number of every sale is 'SALE-' + the date (YYYYMMDD) + '-'
\* + (number of sales already dated that day + 1) as four digits padded with
\* zeros: the sales of one date processed one after the other carry 0001,
\* 0002, .., and the first sale of a later date carries 0001 again.
C12_SaleNumberSequence ==
  \A k \in 1..Len(sales) :
    LET n == Cardinality(EarlierSameDate(k)) + 1
    IN /\ n <= 9
       /\ sales[k].sale_number = <<"SALE-", sales[k].sale_date, "-", <<0, 0, 0, n>> >>

\* C12 witness: two sales of the first day carry 0001 and 0002, and the
\* first sale of the next day carries 0001
C12_Witness ==
  /\ Len(sales) = 3
  /\ sales[1].sale_number = <<"SALE-", Today, "-", <<0, 0, 0, 1>> >>
  /\ sales[2].sale_number = <<"SALE-", Today, "-", <<0, 0, 0, 2>> >>
  /\ sales[3].sale_number = <<"SALE-", Today + 1, "-", <<0, 0, 0, 1>> >>

\* C13: sale numbers are unique: in every reachable state any two rows of
\* table sales carry different sale numbers, for every interleaving of
\* process_sale calls of two sessions on the same date.
C13_SaleNumbersUnique ==
  \A j, k \in 1..Len(sales) :
    j # k => sales[j].sale_number # sales[k].sale_number

(* -------------------------------------------------------------- totals *)
\* |a - b|
Dist(a, b) == IF a >= b THEN a - b ELSE b - a

\* sum of unit_price * quantity over the lines of a cart, in cents
RECURSIVE LineSum(_)
LineSum(cart) ==
  IF cart = <<>> THEN 0
  ELSE Head(cart).unit_price * Head(cart).quantity + LineSum(Tail(cart))

\* C14: calculate_totals returns subtotal = sum of unit_price * quantity,
\* discount_amount = subtotal * percent / 100, tax_amount = (subtotal -
\* discount) * 0.12 and total_amount = (subtotal - discount) + tax, each
\* computed from the unrounded values and then rounded to two decimals (the
\* returned amount is a whole cent at most half a cent away from the exact
\* value); for the cart [10.00 x 2, 5.00 x 1] with 10% it returns 25.00,
\* 2.50, 2.70 and 25.20.
C14_TotalsRounded ==
  tot.called =>
    LET S == LineSum(tot.cart_items)
        p == tot.discount_percent
        r == tot.totals
    IN /\ r.subtotal = S
       /\ r.discount_percent = p
       /\ Dist(r.discount_amount * 100, S * p) <= 50
       /\ Dist(r.tax_amount * 10000, S * (100 - p) * 12) <= 5000
       /\ Dist(r.total_amount * 10000, S * (100 - p) * 112) <= 5000
       /\ ( /\ tot.cart_items = << [unit_price |-> 1000, quantity |-> 2, subtotal |-> 2000],
                                   [unit_price |-> 500, quantity |-> 1, subtotal |-> 500] >>
            /\ p = 10 )
          => /\ r.subtotal = 2500 /\ r.discount_amount = 250
             /\ r.tax_amount = 270 /\ r.total_amount = 2520

\* C14 witness: the totals of the cart [10.00 x 2, 5.00 x 1] with 10% have
\* been computed
C14_Witness ==
  /\ tot.called
  /\ tot.discount_percent = 10
  /\ Len(tot.cart_items) = 2
  /\ tot.cart_items[1].unit_price = 1000 /\ tot.cart_items[1].quantity = 2
  /\ tot.cart_items[2].unit_price = 500 /\ tot.cart_items[2].quantity = 1
  /\ tot.totals.total_amount = 2520

(* ---------------------------------------------------------- adjust_stock *)
\* session s has called adjust_stock
Adjusting(s) == fr[s].op = "adjust_stock"

\* C16: adjust_stock(P, target) called twice in a row with the same target
\* >= 0 and no other change of P in between: after the first call the stock
\* of P is target, the second call leaves it unchanged, still returns True
\* and appends exactly one ledger row, of kind 'adjustment', with
\* quantity_change 0 and previous_stock = new_stock = target.
C16_AdjustTwice ==
  \A s, t \in Sessions :
    ( /\ s # t /\ Adjusting(s) /\ Adjusting(t)
      /\ s \in hist[t].h_before /\ pc[t] = "done"
      /\ fr[s].product_id \in Products /\ fr[t].product_id = fr[s].product_id
      /\ fr[s].new_quantity >= 0 /\ fr[t].new_quantity = fr[s].new_quantity ) =>
      LET p      == fr[s].product_id
          target == fr[s].new_quantity
          rows   == SubSeq(ledger, hist[t].h_nledger + 1, Len(ledger))
      IN /\ fr[s].ret_bool
         /\ hist[t].h_stock[p] = target
         /\ fr[t].ret_bool
         /\ stock[p] = target
         /\ Len(rows) = 1
         /\ rows[1].product_id = p
         /\ rows[1].transaction_type = "adjustment"
         /\ rows[1].quantity_change = 0
         /\ rows[1].previous_stock = target
         /\ rows[1].new_stock = target

\* C16 witness: two adjustments of a product to the same target, one after
\* the other, the first of which changed the stock
C16_Witness ==
  \E s, t \in Sessions :
    /\ s # t /\ Adjusting(s) /\ Adjusting(t)
    /\ s \in hist[t].h_before /\ pc[t] = "done"
    /\ fr[s].product_id \in Products /\ fr[t].product_id = fr[s].product_id
    /\ fr[s].new_quantity >= 0 /\ fr[t].new_quantity = fr[s].new_quantity
    /\ hist[s].h_stock[fr[s].product_id] # fr[s].new_quantity
    /\ Len(ledger) = 2

\* C17: whenever adjust_stock(P, target) has returned True, the stock it
\* wrote and the new_stock of the row it appended equal target, and the row
\* has kind 'adjustment', in every execution, including when another session
\* changes P's stock between the read of adjust_stock and the read inside
\* update_stock.
C17_AdjustReachesTarget ==
  \A s \in Sessions :
    (Adjusting(s) /\ pc[s] = "done" /\ fr[s].ret_bool) =>
      /\ fr[s].transaction_type = "adjustment"
      /\ fr[s].new_stock = fr[s].new_quantity
      /\ \E k \in (hist[s].h_nledger + 1)..Len(ledger) :
           /\ ledger[k].user_id = s
           /\ ledger[k].transaction_type = "adjustment"
           /\ ledger[k].new_stock = fr[s].new_quantity

\* C18: update_stock (also through restock_product) and adjust_stock for a
\* product id without a row return False and change nothing: the session
\* writes nothing, and stock and ledger are as they were at the call.
C18_MissingProductRefused ==
  \A s \in Sessions :
    ( /\ fr[s].op \in {"update_stock", "restock_product", "adjust_stock"}
      /\ fr[s].product_id \notin Products ) =>
      /\ hist[s].h_writes = 0
      /\ pc[s] \in {"us_select", "adj_select", "done"}
      /\ pc[s] = "done" =>
           /\ ~fr[s].ret_bool
           /\ ~fr[s].raised
           /\ hist[s].h_reads = 1
           /\ NothingPersisted(s)

\* C18 witness: an update_stock and an adjust_stock for a product id without
\* a row have both returned, and nothing else was written
C18_Witness ==
  \E s, t \in Sessions :
    /\ fr[s].op = "update_stock" /\ fr[t].op = "adjust_stock"
    /\ fr[s].product_id \notin Products /\ fr[t].product_id \notin Products
    /\ fr[s].quantity_change > 0
    /\ pc[s] = "done" /\ pc[t] = "done"
    /\ ~hist[s].h_touched /\ ~hist[t].h_touched

(* ------------------------------------------------------- frame conditions *)
\* C19: the ledger is append-only: no operation of InventoryManager,
\* SalesManager or ProductManager modifies or removes a row of
\* inventory_transactions; in every step the ledger stays the same or grows
\* at its end, the earlier rows unchanged.
C19_LedgerAppendOnly ==
  [][ /\ Len(ledger') >= Len(ledger)
      /\ SubSeq(ledger', 1, Len(ledger)) = ledger ]_vars

\* C19 witness: a sale of two lines has appended two ledger rows and a
\* product was edited in between
C19_Witness ==
  /\ sales # <<>>
  /\ pm.op # "none"
  /\ Len(ledger) = 2
  /\ prod[ledger[1].product_id] # InitialProduct(ledger[1].product_id)

\* C20: stock_quantity is changed only by the stock ledger: a call of
\* update_product or delete_product leaves every stock_quantity unchanged
\* whatever its arguments, and the UPDATE of update_stock changes the
\* stock_quantity of the given product only, leaving every other product's
\* stock and every other column unchanged.
C20_StockOnlyByLedger ==
  [][ /\ (pm' # pm \/ prod' # prod) => stock' = stock
      /\ stock' # stock =>
           \E s \in Sessions :
             /\ pc[s] = "us_update" /\ pc'[s] = "us_insert"
             /\ \A q \in Products \ {fr[s].product_id} : stock'[q] = stock[q]
             /\ prod' = prod ]_vars

\* C20 witness: product 1 was edited and deactivated and its stock was
\* changed by update_stock, while product 2 is as it was
C20_Witness ==
  /\ prod[1].barcode = "B9" /\ prod[1].unit_price = 0 /\ ~prod[1].is_active
  /\ stock[1] # InitStock
  /\ stock[2] = InitStock /\ prod[2] = InitialProduct(2)
  /\ ledger # <<>>

(* ------------------------------------------------------ product catalogue *)
\* the step is a lookup of ProductManager: only its result is new
LookupStep(op) == pm'.op = op /\ UNCHANGED <<stock, prod, pc, ledger>>

\* C21: a product is never physically deleted.  No step removes a row of
\* table products; a delete_product step only sets is_active of a row to
\* FALSE and leaves the rows, the stocks and the ledger as they are; a
\* lookup by barcode returns None when every product with that barcode is
\* deactivated, and never returns a deactivated product, while a lookup by
\* id returns the product's row whether it is active or not.
C21_SoftDelete ==
  [][ /\ DOMAIN prod \subseteq DOMAIN prod'
      /\ DOMAIN stock \subseteq DOMAIN stock'
      /\ (pm'.op = "delete_product" /\ (pm' # pm \/ prod' # prod)) =>
           /\ stock' = stock
           /\ ledger' = ledger
           /\ DOMAIN prod' = DOMAIN prod
           /\ \A p \in DOMAIN prod :
                \/ prod'[p] = prod[p]
                \/ prod'[p] = [prod[p] EXCEPT !.is_active = FALSE]
      /\ LookupStep("get_product_by_barcode") =>
           /\ (\A p \in DOMAIN prod : prod[p].barcode = pm'.arg[1] => ~prod[p].is_active)
                => pm'.found = NoProduct
           /\ pm'.found # NoProduct =>
                /\ pm'.found.is_active
                /\ pm'.found.barcode = pm'.arg[1]
      /\ LookupStep("get_product_by_id") =>
           \A p \in DOMAIN prod :
             pm'.arg[1] = p =>
               /\ pm'.found.product_id = p
               /\ pm'.found.barcode = prod[p].barcode
               /\ pm'.found.stock_quantity = stock[p]
               /\ pm'.found.is_active = prod[p].is_active ]_vars

\* C21 witness: a product that was restocked and then deactivated has been
\* looked up by id and was returned, with its stock and its ledger row
C21_Witness ==
  /\ pm.op = "get_product_by_id"
  /\ pm.found.product_id \in Products
  /\ ~pm.found.is_active
  /\ ~prod[pm.found.product_id].is_active
  /\ pm.found.stock_quantity > InitStock
  /\ \E k \in 1..Len(ledger) : ledger[k].product_id = pm.found.product_id

(* -------------------------------------------------------- store failures *)
\* C22: when the store raises an error on a statement, none of update_stock,
\* restock_product, adjust_stock, check_stock_availability and process_sale
\* lets the exception escape: every call that has ended has returned its
\* value to the caller.
C22_NoExceptionEscapes ==
  \A s \in Sessions : pc[s] = "done" => ~fr[s].raised

\* C26: update_stock is failure-atomic: whenever an invocation has returned
\* False, also after the store raised on its UPDATE or on its INSERT, the
\* product's stock and the ledger are as they were when the invocation began
\* (no other session writing meanwhile).
C26_FailureAtomic ==
  \A s \in Sessions :
    (Returned(s) /\ ~fr[s].us_ret /\ ~hist[s].u_touched) =>
      /\ StockOf(fr[s].product_id) = hist[s].u_stock
      /\ Len(ledger) = hist[s].u_nledger

\* C27: no stock update is lost: when the two sessions have run update_stock
\* on the same product with deltas d1 and d2 and both have returned True, the
\* stock of the product is the initial stock + d1 + d2, which is also the
\* initial stock plus the sum of quantity_change over the product's ledger
\* rows.
C27_NoLostUpdate ==
  \A s, t \in Sessions :
    ( /\ s # t
      /\ fr[s].op \in {"update_stock", "restock_product"}
      /\ fr[t].op \in {"update_stock", "restock_product"}
      /\ fr[s].product_id \in Products /\ fr[t].product_id = fr[s].product_id
      /\ pc[s] = "done" /\ pc[t] = "done"
      /\ fr[s].us_ret /\ fr[t].us_ret ) =>
      LET p    == fr[s].product_id
          rows == TrailOf(p)
      IN /\ stock[p] = InitStock + fr[s].quantity_change + fr[t].quantity_change
         /\ stock[p] = InitStock + SeqSum([i \in 1..Len(rows) |-> rows[i].quantity_change])

\* C23: a failure of activity logging never fails the triggering operation:
\* a failed INSERT makes log_activity return False (and adds no row), a function wrapped by log_action returns exactly what the
\* wrapped function returned, whether the logging succeeded, failed or was
\* not attempted, and logging is attempted only for an acting user and a
\* truthy result.
C23_LoggingNeverFails ==
  /\ lg.pc = "done" => lg.ret = lg.result
  /\ lg.log_ret # "none" => Truthy(lg.result) /\ lg.log_user # NoId
  /\ lg.pc = "log" => Truthy(lg.result)
  /\ lg.log_ret = "False" => activity_logs = <<>>
  /\ lg.log_ret = "True" => Len(activity_logs) = 1

\* a wrapped call has returned its result although the logging failed
C23_Witness ==
  /\ lg.pc = "done"
  /\ lg.log_ret = "False"
  /\ lg.ret = PyInt(5)

\* C24: validation failures are reported before any mutation: a create_user
\* with a username that begins with a digit, a password without a digit, an
\* email with a one-letter top-level domain or two dots in a row, or a phone
\* of three digits returns None and table users stays as it is; an
\* update_user with such an email or phone or with a role other than admin
\* and cashier returns False and table users stays as it is, although the
\* other fields it supplies are valid; a change_password or reset_password
\* with a new password without a digit returns False and table users (the
\* stored hash included) stays as it is.
C24_ValidationBeforeMutation ==
  [][/\ (/\ um'.op = "create_user"
         /\ \/ um'.username = BadName
            \/ um'.password = BadPass
            \/ um'.email \in {BadMail, DotMail}
            \/ um'.phone = BadPhone)
          => um'.ret = NoId /\ users' = users
     /\ (/\ um'.op = "update_user"
         /\ \/ um'.email \in {BadMail, DotMail}
            \/ um'.phone = BadPhone
            \/ um'.role = "manager")
          => ~um'.ok /\ users' = users
     /\ (/\ um'.op \in {"change_password", "reset_password"}
         /\ um'.password = BadPass)
          => ~um'.ok /\ users' = users]_vars

\* update_user has refused a bad email although the name, phone and role it
\* was given are valid and user 2 exists, after a create_user with a bad
\* phone was refused and one with valid arguments went through
C24_Witness ==
  /\ um.op = "update_user"
  /\ um.email = BadMail
  /\ um.phone = Phone
  /\ um.role = "admin"
  /\ ~um.ok
  /\ 2 \in UserRows
  /\ users[2].email = NoneChars

\* the password the stored hash of user u was made from
PasswordOf(u) == users[u].password_hash.digest[2]

\* C30: a deactivated account cannot log in.  The active flag of a user row
\* changes only in a deactivate_user or activate_user on that user, which sets
\* it to FALSE or TRUE; whenever authenticate returns a user, the row of that
\* user exists, carries the username given, is active, and the password given
\* is the one its hash was made from (so no login on a deactivated account,
\* with a wrong password or with an unknown username); and an authenticate
\* with the username and the password of an active user returns that user.
C30_DeactivatedCannotLogIn ==
  [][/\ \A u \in UserRows :
          (u \in UserRows' /\ users'[u].is_active # users[u].is_active)
            => /\ um'.op = (IF users[u].is_active THEN "deactivate_user"
                            ELSE "activate_user")
               /\ um'.user_id = u
               /\ um'.ok
     /\ (um'.op \in {"deactivate_user", "activate_user"} /\ um'.user_id \in UserRows)
          => users'[um'.user_id].is_active = (um'.op = "activate_user")
     /\ (um'.op = "authenticate" /\ um'.ret # NoId)
          => /\ um'.ret \in UserRows
             /\ users[um'.ret].username = um'.username
             /\ users[um'.ret].is_active
             /\ PasswordOf(um'.ret) = um'.password
     /\ um'.op = "authenticate"
          => \A u \in UserRows :
               (/\ users[u].username = um'.username
                /\ users[u].is_active
                /\ PasswordOf(u) = um'.password)
                 => um'.ret = u
     /\ um'.op = "authenticate" => users' = users]_vars

\* an authenticate with the username and the password of the deactivated
\* user 2 has returned None
C30_Witness ==
  /\ um.op = "authenticate"
  /\ um.ret = NoId
  /\ 2 \in UserRows
  /\ ~users[2].is_active
  /\ um.username = users[2].username
  /\ um.password = PasswordOf(2)

\* the rows the table held at the last query that match the filters of the
\* query
Matched ==
  {i \in 1..qr.nrows :
     /\ qr.product_id = NoId \/ ledger[i].product_id = qr.product_id
     /\ qr.transaction_type = "" \/ ledger[i].transaction_type = qr.transaction_type}

\* C25: get_inventory_transactions returns at most limit rows, every row it
\* returns matches each filter supplied, no returned row was appended later
\* than a row listed before it, and no matching row appended later than a
\* returned row is left out.
C25_MostRecentFirst ==
  qr.called =>
    LET r == qr.rows
    IN /\ Len(r) <= qr.limit
       /\ \A i \in 1..Len(r) : r[i] \in Matched
       /\ \A i, j \in 1..Len(r) : i < j => r[i] > r[j]
       /\ \A m \in Matched :
            (\A i \in 1..Len(r) : r[i] # m) => \A i \in 1..Len(r) : m < r[i]

\* C28: the four amounts calculate_totals returns are consistent after
\* rounding: total_amount = subtotal - discount_amount + tax_amount, to the
\* cent, for every cart of whole-cent prices and every discount percent.
C28_TotalsConsistent ==
  tot.called =>
    tot.totals.total_amount =
      tot.totals.subtotal - tot.totals.discount_amount + tot.totals.tax_amount

\* sum of the subtotals of a sequence of sale_items rows, in cents
RECURSIVE ItemSum(_)
ItemSum(rows) ==
  IF rows = <<>> THEN 0 ELSE Head(rows).subtotal + ItemSum(Tail(rows))

\* C29: for every sale for which process_sale returned a sale id, there is
\* exactly one sale_items row per cart line (same product and quantity, in
\* cart order), the subtotal of each row is its unit_price times its
\* quantity, and the subtotal of the header is the sum of the subtotals of
\* its sale_items rows, rounded to two decimals.
C29_HeaderMatchesItems ==
  \A s \in Sessions :
    (pc[s] = "done" /\ fr[s].op = "process_sale" /\ fr[s].ret_sale # NoId) =>
      LET sid  == fr[s].ret_sale
          cart == fr[s].cart
          its  == ItemsOf(sid)
      IN /\ Len(its) = Len(cart)
         /\ \A j \in 1..Len(its) :
              /\ its[j].product_id = cart[j].product_id
              /\ its[j].quantity = cart[j].quantity
              /\ its[j].subtotal = its[j].unit_price * its[j].quantity
         /\ sid \in 1..Len(sales)
         /\ sales[sid].subtotal \in Round2(ItemSum(its) * Scale)

\* a session has sold a cart of two lines and got its sale id
C29_Witness ==
  \E s \in Sessions :
    /\ pc[s] = "done"
    /\ fr[s].op = "process_sale"
    /\ fr[s].ret_sale # NoId
    /\ Len(fr[s].cart) = 2
    /\ Len(ItemsOf(fr[s].ret_sale)) = 2
    /\ sales[fr[s].ret_sale].subtotal = ShelfPrice(1) + ShelfPrice(2)

====
